---- MODULE Spec2Model ----
(***************************************************************************)
(* Model of the MySQL adapter (class MySql of src/src/index.js, the        *)
(* `client` revision, lines 1-285): connection lifecycle, promise-style    *)
(* query execution and last-insert-id capture.                             *)
(*                                                                         *)
(* The adapter is single threaded.  One action of the model is one         *)
(* synchronous run of adapter code: a call of connect(), disconnect() or   *)
(* query() made by the application, a callback invoked by the transport    *)
(* (the `mysql` driver), or a promise reaction (the `then` handler that    *)
(* query() registers on connect()).                                        *)
(***************************************************************************)
EXTENDS Integers, Sequences, FiniteSets, TLC

VARIABLES
  database,      \* config.database is set (fixed at construction)
  client,        \* this._client: NoClient or the id of a transport link
  connected,     \* this._connected
  lastInsertId,  \* this._lastInsertId: <<>> (undefined) or <<id>>
  links,         \* transport links (handles); a link's id is its index; stmts are
                 \* the statement texts submitted on it, in order
  injected,      \* number of links handed in through config.client (0 or 1)
  conns,         \* promises returned by connect(), in call order
  queries,       \* promises returned by query(), in call order
  last,          \* the adapter code that ran last and what it returned
  intro,         \* the call of fields() or describe() in progress
  parsed,        \* the vendor type text last handed to _field() and its result
  listing,       \* the call of sources() in progress and the engine's catalogue
  conv,          \* the last conversions made by convert(), one per direction
  feat,          \* what the last call of MySql.enabled() returned
  config         \* the options given to the constructor and this._config.user

vars == <<database, client, connected, lastInsertId, links, injected, conns, queries, last,
          intro, parsed, listing, conv, feat, config>>

----------------------------------------------------------------------------
(* Bounds of the model *)

\* connect() invocations, direct or made by query()
MaxConnects == 2

\* query() invocations
MaxQueries == 2

----------------------------------------------------------------------------
(* Values *)

\* `client: undefined` of the defaults: no handle is cached
NoClient == 0

\* the value of an absent error argument / of a promise that has no error
NoError == [code |-> "", message |-> <<>>, stack |-> ""]

\* errors the transport hands to the callback of client.connect()
ConnectErrors ==
  { [code |-> "ECONNREFUSED", message |-> <<"connect ECONNREFUSED">>, stack |-> "Error: connect ECONNREFUSED"],
    [code |-> "ENOTFOUND", message |-> <<"getaddrinfo ENOTFOUND hostlocal">>, stack |-> "Error: getaddrinfo ENOTFOUND hostlocal"] }

\* errors the transport hands to the callback of client.query()
QueryErrors ==
  { [code |-> "ER_PARSE_ERROR", message |-> <<"ER_PARSE_ERROR: You have an error in your SQL syntax">>, stack |-> "Error: ER_PARSE_ERROR"],
    [code |-> "PROTOCOL_ENQUEUE_AFTER_QUIT", message |-> <<"Cannot enqueue Query after invoking quit.">>, stack |-> "Error: Cannot enqueue Query"] }

\* new Error(message): an error object that carries a message only
NewError(message) == [code |-> "", message |-> message, stack |-> ""]

\* the error connect() rejects with when config.database is missing
NoDatabaseError == NewError(<<"Error, no database name has been configured.">>)

\* the error connect() rejects with when the transport cannot connect:
\* 'Unable to connect to host , error ' + err.code + ' ' + err.stack
ConnectionError(err) ==
  NewError(<<"Unable to connect to host , error ", err.code, " ", err.stack>>)

\* statement texts handed to query()
Statements == {"SELECT 1 + 1 as sum", "INSERT INTO gallery"}

\* the `data` argument of the callback of client.query(): absent, a row set
\* (no insertId property), or an OK packet (insertId property, 0 included)
NoData == [present |-> FALSE, insertId |-> <<>>, rows |-> <<>>]

Datas ==
  { NoData,
    [present |-> TRUE, insertId |-> <<>>, rows |-> <<"row">>],
    [present |-> TRUE, insertId |-> <<0>>, rows |-> <<>>],
    [present |-> TRUE, insertId |-> <<1>>, rows |-> <<>>] }

\* the values query() resolves with
True == [kind |-> "true", data |-> NoData]

\* new cursor({ data: data })
Cursor(data) == [kind |-> "cursor", data |-> data]

NoValue == [kind |-> "none", data |-> NoData]

----------------------------------------------------------------------------
(* Schema introspection: fields(), _field() and describe() *)

\* columns reported per introspection query
MaxColumns == 2

\* largest length and precision written in a vendor type text
MaxLength == 12

MaxPrecision == 2

\* texts are sequences of characters
Digits == <<"0", "1", "2", "3", "4", "5", "6", "7", "8", "9">>

DigitChars == {Digits[k] : k \in 1..Len(Digits)}

\* \w of the pattern
WordChars ==
  DigitChars \cup {"a", "c", "d", "e", "h", "i", "l", "m", "n", "p", "r", "s", "t", "v", "y", "_"}

\* [\d,] of the pattern
LengthChars == DigitChars \cup {","}

\* the value of Number.parseInt for a text that does not start with a digit
NaN == -1

\* the value of a digit character
DigitValue(c) == (CHOOSE k \in 1..Len(Digits) : Digits[k] = c) - 1

\* the number of characters of text from position i on that are in class
RECURSIVE RunLen(_, _, _)
RunLen(text, i, class) ==
  IF i > Len(text) \/ text[i] \notin class THEN 0
  ELSE 1 + RunLen(text, i + 1, class)

\* the value of a sequence of digits read as a decimal number
RECURSIVE DecimalValue(_)
DecimalValue(digits) ==
  IF digits = <<>> THEN 0
  ELSE 10 * DecimalValue(SubSeq(digits, 1, Len(digits) - 1)) + DigitValue(digits[Len(digits)])

\* Number.parseInt(text): the leading digits of the text, NaN without any
ParseInt(text) ==
  LET n == RunLen(text, 1, DigitChars)
  IN  IF n = 0 THEN NaN ELSE DecimalValue(SubSeq(text, 1, n))

\* text.split(','): the pieces between the commas
RECURSIVE Split(_)
Split(text) ==
  LET n == RunLen(text, 1, LengthChars \ {","})
  IN  IF n = Len(text) THEN <<text>>
      ELSE <<SubSeq(text, 1, n)>> \o Split(SubSeq(text, n + 2, Len(text)))

\* text.match(/(\w+)(?:\(([\d,]+)\))?/): the leftmost run of word characters
\* and, when it is directly followed by a parenthesised run of digits and
\* commas, that run; m2 is <<>> when the group did not take part
Match(text) ==
  LET s == CHOOSE k \in 1..Len(text) :
             text[k] \in WordChars /\ \A j \in 1..(k - 1) : text[j] \notin WordChars
      n == RunLen(text, s, WordChars)
      e == s + n
      k == IF e <= Len(text) /\ text[e] = "(" THEN RunLen(text, e + 1, LengthChars) ELSE 0
      group == k > 0 /\ e + 1 + k <= Len(text) /\ text[e + 1 + k] = ")"
  IN  [m1 |-> SubSeq(text, s, e - 1),
       m2 |-> IF group THEN <<SubSeq(text, e + 1, e + k)>> ELSE <<>>]

\* vendor base type names
T_int == <<"i", "n", "t">>
T_tinyint == <<"t", "i", "n", "y", "i", "n", "t">>
T_decimal == <<"d", "e", "c", "i", "m", "a", "l">>
T_timestamp == <<"t", "i", "m", "e", "s", "t", "a", "m", "p">>
T_varchar == <<"v", "a", "r", "c", "h", "a", "r">>

BaseTypes == {T_int, T_tinyint, T_decimal, T_timestamp, T_varchar}

\* this.dialect().mapped(field): the logical type the dialect maps a parsed
\* column to (the dialect is an external collaborator; this is its mapping
\* for the base types above, as the tests observe it)
Mapped(field) ==
  IF field.use = T_tinyint /\ field.length = <<1>> THEN "boolean"
  ELSE IF field.use \in {T_int, T_tinyint} THEN "integer"
  ELSE IF field.use = T_decimal THEN "decimal"
  ELSE IF field.use = T_timestamp THEN "datetime"
  ELSE "string"

\* (mutant) the second number is tested after its conversion: 0 is dropped
HasPrecision_numeric(pieces) ==
  Len(pieces) >= 2 /\ pieces[2] # <<>> /\ ParseInt(pieces[2]) # 0

\* `if (length[1])`: a second piece that is not the empty string
HasPrecision(pieces) == Len(pieces) >= 2 /\ pieces[2] # <<>>

\* _field(column): use, length and precision parsed from column.Type, and
\* the logical type; an absent length or precision is <<>>
Field(type) ==
  LET matches == Match(type)
      pieces == IF matches.m2 = <<>> THEN <<>> ELSE Split(matches.m2[1])
      field == [use |-> matches.m1,
                length |-> IF matches.m2 = <<>> THEN <<>> ELSE <<ParseInt(pieces[1])>>,
                precision |-> IF matches.m2 # <<>> /\ HasPrecision(pieces)
                              THEN <<ParseInt(pieces[2])>> ELSE <<>>]
  IN  [type |-> Mapped(field), use |-> field.use,
       length |-> field.length, precision |-> field.precision]

\* default values: null, a text, or a boolean
DNull == [kind |-> "null", text |-> "", bool |-> FALSE]

DString(s) == [kind |-> "string", text |-> s, bool |-> FALSE]

DBool(b) == [kind |-> "boolean", text |-> "", bool |-> b]

\* `dflt = dflt === '1'`
BooleanDefault(dflt) == DBool(dflt = DString("1"))

\* (mutant) the comparison with the sentinel is inverted
DatetimeDefault_inverted(dflt) ==
  IF dflt = DString("CURRENT_TIMESTAMP") THEN dflt ELSE DNull

\* `dflt = dflt !== 'CURRENT_TIMESTAMP' ? dflt : null`
DatetimeDefault(dflt) ==
  IF dflt # DString("CURRENT_TIMESTAMP") THEN dflt ELSE DNull

\* `switch (field.type)`
NormalizedDefault(type, dflt) ==
  IF type = "boolean" THEN BooleanDefault(dflt)
  ELSE IF type = "datetime" THEN DatetimeDefault(dflt)
  ELSE dflt

\* (mutant) a column without a default counts as nullable
NullFlag_byDefault(column) == column.Default = DNull

\* `column.Null === 'YES' ? true : false`
NullFlag(column) == column.Null = "YES"

\* the entry pushed for one column: tmp[column.Field] = extend({}, {null,
\* default}, field)
Tmp(column) ==
  LET field == Field(column.Type)
  IN  [name |-> column.Field,
       def |-> [null |-> NullFlag(column),
                default |-> NormalizedDefault(field.type, column.Default),
                type |-> field.type, use |-> field.use,
                length |-> field.length, precision |-> field.precision]]

\* (mutant) the entry is put in front of the others
Push_front(fields, tmp) == <<tmp>> \o fields

\* `fields.push(tmp)`
Push(fields, tmp) == Append(fields, tmp)

\* the vendor type text of base type `base` with the numbers `numbers`
RECURSIVE DecimalText(_)
DecimalText(n) ==
  IF n < 10 THEN <<Digits[n + 1]>>
  ELSE DecimalText(n \div 10) \o <<Digits[(n % 10) + 1]>>

TypeText(base, numbers) ==
  IF numbers = <<>> THEN base
  ELSE IF Len(numbers) = 1 THEN base \o <<"(">> \o DecimalText(numbers[1]) \o <<")">>
  ELSE base \o <<"(">> \o DecimalText(numbers[1]) \o <<",">> \o DecimalText(numbers[2]) \o <<")">>

\* rows an introspection query reports: {Field, Type, Null, Default}; the
\* k-th column of the table is named ColumnNames[k]
ColumnNames == <<"id", "active", "created", "name", "money">>

ColumnTypes == {TypeText(T_tinyint, <<1>>), TypeText(T_timestamp, <<>>), TypeText(T_decimal, <<10, 2>>)}

RawDefaults == {DNull, DString("1"), DString("0"), DString("CURRENT_TIMESTAMP")}

ColumnAttributes == [Type : ColumnTypes, Null : {"YES", "NO"}, Default : RawDefaults]

\* the row sets of a table of at most MaxColumns columns
ColumnSeqs ==
  UNION {{[k \in 1..n |-> [Field |-> ColumnNames[k], Type |-> attrs[k].Type,
                           Null |-> attrs[k].Null, Default |-> attrs[k].Default]] :
            attrs \in [1..n -> ColumnAttributes]} : n \in 0..MaxColumns}

\* field definitions a caller hands to describe(); <<>> stands for none
SuppliedFields ==
  { <<>>,
    <<[name |-> "id",
       def |-> [null |-> FALSE, default |-> DNull, type |-> "serial", use |-> <<>>,
                length |-> <<>>, precision |-> <<>>]]>> }

Metas == {"undefined", "meta"}

\* new schema({ connection: this, source: name, fields: fields, meta: meta })
NewSchema(fields, meta) ==
  [connection |-> "this", source |-> "gallery", fields |-> fields, meta |-> meta]

NoSchema == [connection |-> "", source |-> "", fields |-> <<>>, meta |-> ""]

\* no call of fields() or describe() has been made
IntroIdle ==
  [pc |-> "idle", op |-> "none", nbargs |-> 0, supplied |-> <<>>, meta |-> "undefined",
   issued |-> 0, columns |-> <<>>, pos |-> 1, fields |-> <<>>, schema |-> NoSchema]

NotParsed == [text |-> <<>>, field |-> [type |-> "", use |-> <<>>, length |-> <<>>, precision |-> <<>>]]

----------------------------------------------------------------------------
(* Values of sources() *)

\* tables and views the engine may hold in one schema
MaxTables == 2

TableNames == <<"gallery", "image", "tag">>

\* config.database of the test connection, and another schema of the engine
DatabaseName == "chaos_test"

Schemas == {DatabaseName, "mysql"}

\* information_schema.tables: what each schema holds under each name
Places == {<<s, TableNames[k]>> : s \in Schemas, k \in 1..MaxTables}

Catalogues == [Places -> {"none", "BASE TABLE", "VIEW"}]

NoCatalogue == [p \in Places |-> "none"]

\* the select statement built by sources()
NoSelect == [fields |-> "", from |-> "", table_type |-> "", table_schema |-> ""]

ListingIdle(catalogue) ==
  [pc |-> "idle", catalogue |-> catalogue, select |-> NoSelect, issued |-> 0, result |-> <<>>]


----------------------------------------------------------------------------
(* convert(direction, type, value): the conversion tables the adapter       *)
(* inherits.  Their code is not part of the source at hand; they are        *)
(* modelled from their documented behaviour and the adapter's tests.        *)

\* largest magnitude of the integers converted
MaxInt == 2

\* application and storage values: null, a number, a text, a boolean, and
\* the not-a-number result of parsing a text without digits
VNull == [kind |-> "null", num |-> 0, text |-> <<>>, bool |-> FALSE]

VNum(n) == [kind |-> "number", num |-> n, text |-> <<>>, bool |-> FALSE]

VText(s) == [kind |-> "string", num |-> 0, text |-> s, bool |-> FALSE]

VBool(b) == [kind |-> "boolean", num |-> 0, text |-> <<>>, bool |-> b]

VNaN == [kind |-> "nan", num |-> 0, text |-> <<>>, bool |-> FALSE]

\* the logical types of the conversion tables, and one they do not hold
IntegerTypes == {"id", "serial", "integer"}

OtherTypes == {"float", "decimal", "date", "datetime"}

LogicalTypes == IntegerTypes \cup OtherTypes \cup {"boolean", "null", "string", "_undefined_"}

\* the storage literals
NullLiteral == <<"N", "U", "L", "L">>

TrueLiteral == <<"T", "R", "U", "E">>

FalseLiteral == <<"F", "A", "L", "S", "E">>

\* the decimal digits of an integer, with its sign
IntText(n) == IF n < 0 THEN <<"-">> \o DecimalText(0 - n) ELSE DecimalText(n)

\* the number a text of decimal digits with an optional sign stands for
ParseNumber(text) ==
  LET neg  == text # <<>> /\ text[1] = "-"
      body == IF neg THEN Tail(text) ELSE text
      n    == RunLen(body, 1, DigitChars)
  IN  IF n = 0 THEN VNaN
      ELSE VNum((IF neg THEN 0 - 1 ELSE 1) * DecimalValue(SubSeq(body, 1, n)))

\* the dialect's quoting: the text between quotes, its quotes escaped
RECURSIVE Escape(_)
Escape(s) ==
  IF s = <<>> THEN <<>>
  ELSE (IF s[1] \in {"'", "\\"} THEN <<"\\", s[1]>> ELSE <<s[1]>>) \o Escape(Tail(s))

Quote(s) == <<"'">> \o Escape(s) \o <<"'">>

\* the text of a value, as the fallback converter writes it
Stringify(v) ==
  IF v.kind = "number" THEN IntText(v.num)
  ELSE IF v.kind = "boolean" THEN (IF v.bool THEN <<"t", "r", "u", "e">> ELSE <<"f", "a", "l", "s", "e">>)
  ELSE v.text

\* (mutant) null is converted by the converter of the logical type
ToStorage_nullByType(type, v) ==
  IF type = "null" THEN VText(NullLiteral)
  ELSE IF type \in IntegerTypes THEN VText(IntText(v.num))
  ELSE IF type = "boolean" THEN VText(IF v.bool THEN TrueLiteral ELSE FalseLiteral)
  ELSE IF type = "string" THEN VText(Quote(v.text))
  ELSE VText(Quote(Stringify(v)))

\* convert('datasource', type, v): a null value gives NULL whatever the
\* type; otherwise the converter of the type, or the fallback, writes the
\* literal (the converters of float, decimal, date and datetime are handed
\* null only, see TypedValues)
ToStorage(type, v) ==
  IF v = VNull THEN VText(NullLiteral)
  ELSE IF type \in IntegerTypes THEN VText(IntText(v.num))
  ELSE IF type = "boolean" THEN VText(IF v.bool THEN TrueLiteral ELSE FalseLiteral)
  ELSE IF type = "null" THEN VText(NullLiteral)
  ELSE IF type = "string" THEN VText(Quote(v.text))
  ELSE VText(Quote(Stringify(v)))

\* (mutant) integers read from the storage are passed through
IntegerFromStorage_text(s) == s

\* the converter of the integer types from the storage: the text is parsed
\* to a number, a number is kept
IntegerFromStorage(s) == IF s.kind = "string" THEN ParseNumber(s.text) ELSE s

\* convert('cast', type, s): the values it may yield.  Booleans are
\* documented for 1 and 0 only; any other stored value yields some boolean.
\* Types without a documented converter pass the value through.
FromStorage(type, s) ==
  IF type \in IntegerTypes THEN {IntegerFromStorage(s)}
  ELSE IF type = "boolean"
       THEN (IF s = VNum(1) THEN {VBool(TRUE)}
             ELSE IF s = VNum(0) THEN {VBool(FALSE)}
             ELSE {VBool(TRUE), VBool(FALSE)})
  ELSE IF type = "null" THEN {VNull}
  ELSE {s}

\* the values converted: null for every type, integers for the integer
\* types, texts for string, booleans for boolean, and each of them for the
\* type the tables do not hold
Texts == {<<>>, <<"a", "b", "c">>, <<"i", "t", "'", "s">>}

TypedValues(type) ==
  {VNull} \cup
  (IF type \in IntegerTypes \cup {"_undefined_"} THEN {VNum(n) : n \in (0 - MaxInt)..MaxInt} ELSE {}) \cup
  (IF type \in {"string", "_undefined_"} THEN {VText(s) : s \in Texts} ELSE {}) \cup
  (IF type \in {"boolean", "_undefined_"} THEN {VBool(b) : b \in BOOLEAN} ELSE {})

NotConverted == [pc |-> "none", type |-> "", value |-> VNull, stored |-> VNull, back |-> VNull]

----------------------------------------------------------------------------
(* Values of MySql.enabled() and of the constructor's options *)

\* `var features = {...}`: the feature table, as pairs of a name and a flag
Features ==
  {<<"arrays", FALSE>>, <<"transactions", TRUE>>, <<"booleans", TRUE>>, <<"default", FALSE>>}

\* the feature names asked for
FeatureNames == {"arrays", "transactions", "savepoints", "booleans", "default", "json"}

NotAsked == [args |-> <<>>, kind |-> "none", table |-> {}, flag |-> FALSE]

\* user names given as options
UserNames == {"root", "app"}

\* an option is absent (<<>>) or given (<<name>>)
Options == {<<>>} \cup {<<n>> : n \in UserNames}

DefaultConfig == [username |-> <<>>, user |-> <<>>, configUser |-> <<>>, built |-> FALSE]

----------------------------------------------------------------------------
(* The state after construction *)

Init ==
  /\ database \in BOOLEAN
  /\ injected \in {0, 1}
  /\ links = IF injected = 1 THEN <<[st |-> "open", ends |-> 0, stmts |-> <<>>]>> ELSE <<>>
  /\ client = IF injected = 1 THEN 1 ELSE NoClient
  /\ connected = FALSE
  /\ lastInsertId = <<>>
  /\ conns = <<>>
  /\ queries = <<>>
  /\ last = [op |-> "constructor", value |-> TRUE]
  /\ intro = IntroIdle
  /\ parsed = NotParsed
  /\ listing = ListingIdle(NoCatalogue)
  /\ conv = NotConverted
  /\ feat = NotAsked
  /\ config = DefaultConfig

----------------------------------------------------------------------------
(* connect() *)

\* (mutant) the cached handle is looked up through the connected flag
HasClient_byFlag == connected

\* `if (this._client)`
HasClient == client # NoClient

\* (mutant) the check of the database name is skipped
HasDatabase_skipped == TRUE

\* `if (!config.database)`
HasDatabase == database

\* (mutant) the new handle is not cached when it is created
ClientAfterCreate_late(new) == client

\* `self._client = client` in the executor of the promise: the new handle is
\* cached before client.connect() is called
ClientAfterCreate(new) == new

\* what connect() does to the handle and the transport, and the promise it
\* returns; `by` is 0 for a call of the application and the query's index
\* for the call query() makes.  `link` is the link the promise waits for.
DoConnect(by) ==
  IF HasClient
  THEN /\ conns' = Append(conns, [st |-> "resolved", val |-> client, err |-> NoError,
                                  link |-> NoClient, by |-> by])
       /\ UNCHANGED <<client, links>>
  ELSE IF ~HasDatabase
  THEN /\ conns' = Append(conns, [st |-> "rejected", val |-> NoClient, err |-> NoDatabaseError,
                                  link |-> NoClient, by |-> by])
       /\ UNCHANGED <<client, links>>
  ELSE /\ links' = Append(links, [st |-> "connecting", ends |-> 0, stmts |-> <<>>])
       /\ client' = ClientAfterCreate(Len(links) + 1)
       /\ conns' = Append(conns, [st |-> "pending", val |-> NoClient, err |-> NoError,
                                  link |-> Len(links) + 1, by |-> by])

\* the application calls connect()
Connect ==
  /\ Len(conns) < MaxConnects
  /\ DoConnect(0)
  /\ last' = [op |-> "connect", value |-> TRUE]
  /\ UNCHANGED <<database, connected, lastInsertId, injected, queries, intro, parsed, listing, conv, feat, config>>

\* a `then` handler of query() is due: promise reactions run before the
\* transport delivers its next event
ReactionDue(q) == q.then = "pending" /\ conns[q.conn].st # "pending"

NoReactionDue == \A i \in 1..Len(queries) : ~ReactionDue(queries[i])

\* `self._connected = true` in the callback of client.connect()
ConnectedAfterSuccess == TRUE

\* the transport calls the callback of client.connect() without an error:
\* the handshake of link l has completed (it also completes when end() was
\* called meanwhile: the driver queues the quit behind the handshake)
ConnectCallbackOk(l) ==
  /\ links[l].st = "connecting"
  /\ NoReactionDue
  /\ links' = [links EXCEPT ![l].st = "open"]
  /\ connected' = ConnectedAfterSuccess
  /\ conns' = [i \in 1..Len(conns) |->
                 IF conns[i].link = l
                 THEN [conns[i] EXCEPT !.st = "resolved", !.val = l]
                 ELSE conns[i]]
  /\ last' = [op |-> "connectCallback", value |-> TRUE]
  /\ UNCHANGED <<database, client, lastInsertId, injected, queries, intro, parsed, listing, conv, feat, config>>

\* the transport calls the callback of client.connect() with an error
ConnectCallbackErr(l, err) ==
  /\ links[l].st = "connecting"
  /\ NoReactionDue
  /\ links' = [links EXCEPT ![l].st = "failed"]
  /\ conns' = [i \in 1..Len(conns) |->
                 IF conns[i].link = l
                 THEN [conns[i] EXCEPT !.st = "rejected", !.err = ConnectionError(err)]
                 ELSE conns[i]]
  /\ last' = [op |-> "connectCallback", value |-> FALSE]
  /\ UNCHANGED <<database, client, connected, lastInsertId, injected, queries, intro, parsed, listing, conv, feat, config>>

----------------------------------------------------------------------------
(* disconnect() *)

\* (mutant) the handle is kept after end()
ClientAfterEnd_kept == client

\* (mutant) the transport link is not closed
EndCalls_skipped(n) == n

\* `this._client.end()`: one more call of end() on the link
EndCalls(n) == n + 1

\* `this._client = undefined`
ClientAfterEnd == NoClient

\* `this._connected = false`
ConnectedAfterEnd == FALSE

Disconnect ==
  /\ IF ~HasClient
     THEN UNCHANGED <<client, connected, links>>
     ELSE /\ links' = [links EXCEPT ![client].ends = EndCalls(@)]
          /\ client' = ClientAfterEnd
          /\ connected' = ConnectedAfterEnd
  /\ last' = [op |-> "disconnect", value |-> TRUE]
  /\ UNCHANGED <<database, lastInsertId, injected, conns, queries, intro, parsed, listing, conv, feat, config>>

----------------------------------------------------------------------------
(* query() *)

\* the application calls query(sql): the promise is created and connect()
\* is called; the handler given to then() runs later
Query(sql) ==
  /\ Len(queries) < MaxQueries
  /\ Len(conns) < MaxConnects
  /\ DoConnect(Len(queries) + 1)
  /\ queries' = Append(queries,
       [sql |-> sql, conn |-> Len(conns) + 1, then |-> "pending",
        link |-> NoClient, late |-> FALSE,
        st |-> "pending", val |-> NoValue, err |-> NoError,
        got |-> [err |-> NoError, data |-> NoData]])
  /\ last' = [op |-> "query", value |-> TRUE]
  /\ UNCHANGED <<database, connected, lastInsertId, injected, intro, parsed, listing, conv, feat, config>>

\* (mutant) the statement is rewritten before it is submitted
SubmittedText_rewritten(sql) == "SELECT 1"

\* `self._client.query(sql, ...)`: the text handed to the transport
SubmittedText(sql) == sql

\* the reaction to the promise of connect(): `.then(function() { ... })`
\* has no rejection handler, so a rejection only rejects the promise that
\* then() returns; the handler itself calls self._client.query(sql, cb) on
\* the handle cached at that moment, and throws a TypeError inside the
\* handler when there is none
QueryThen(i) ==
  /\ ReactionDue(queries[i])
  /\ IF conns[queries[i].conn].st = "rejected" \/ ~HasClient
     THEN /\ queries' = [queries EXCEPT ![i].then = "rejected"]
          /\ UNCHANGED links
     ELSE /\ queries' = [queries EXCEPT ![i] =
               [@ EXCEPT !.then = "fulfilled", !.link = client,
                         !.late = links[client].ends > 0]]
          /\ links' = [links EXCEPT ![client].stmts = Append(@, SubmittedText(queries[i].sql))]
  /\ last' = [op |-> "queryThen", value |-> TRUE]
  /\ UNCHANGED <<database, client, connected, lastInsertId, injected, conns, intro, parsed, listing, conv, feat, config>>

\* (mutant) the native error is wrapped into a new error
RejectedWith_wrapped(err) == NewError(<<"Query failed, error ">> \o err.message)

\* `reject(err)`: the error the promise of query() is rejected with
RejectedWith(err) == err

\* (mutant) the identifier is tested for truthiness: 0 counts as absent
HasInsertId_truthy(data) == data.present /\ data.insertId \notin {<<>>, <<0>>}

\* `data && data.insertId !== undefined`
HasInsertId(data) == data.present /\ data.insertId # <<>>

\* the value the promise of query() is resolved with
Accepted(data) ==
  IF HasInsertId(data) THEN True
  ELSE IF data.present THEN Cursor(data) ELSE True

\* (mutant) the identifier of every response with data is recorded
LastInsertIdAfter_anyData(data) ==
  IF data.present THEN data.insertId ELSE lastInsertId

\* `self._lastInsertId = data.insertId`, in the first branch only
LastInsertIdAfter(data) ==
  IF HasInsertId(data) THEN data.insertId ELSE lastInsertId

\* the statement of query i is waiting for the transport's answer
Submitted(q) == q.link # NoClient /\ q.st = "pending"

\* the transport calls the callback of client.query() with an error: a
\* statement queued behind a quit, or on a link whose handshake failed, has
\* no other outcome
QueryCallbackErr(i, err) ==
  /\ Submitted(queries[i])
  /\ NoReactionDue
  /\ queries[i].late \/ links[queries[i].link].st # "connecting"
  /\ queries' = [queries EXCEPT ![i] =
       [@ EXCEPT !.st = "rejected", !.err = RejectedWith(err),
                 !.got = [err |-> err, data |-> NoData]]]
  /\ last' = [op |-> "queryCallback", value |-> TRUE]
  /\ UNCHANGED <<database, client, connected, lastInsertId, links, injected, conns, intro, parsed, listing, conv, feat, config>>

\* the transport calls the callback of client.query() with the response
QueryCallbackOk(i, data) ==
  /\ Submitted(queries[i])
  /\ NoReactionDue
  /\ ~queries[i].late /\ links[queries[i].link].st = "open"
  /\ queries' = [queries EXCEPT ![i] =
       [@ EXCEPT !.st = "resolved", !.val = Accepted(data),
                 !.got = [err |-> NoError, data |-> data]]]
  /\ lastInsertId' = LastInsertIdAfter(data)
  /\ last' = [op |-> "queryCallback", value |-> TRUE]
  /\ UNCHANGED <<database, client, connected, links, injected, conns, intro, parsed, listing, conv, feat, config>>

----------------------------------------------------------------------------
(* lastInsertId(), connected(), client() *)

\* connected(): `return this._connected`
Connected == connected

----------------------------------------------------------------------------

Next ==
  \/ Connect
  \/ Disconnect
  \/ \E sql \in Statements : Query(sql)
  \/ \E l \in 1..Len(links) : ConnectCallbackOk(l)
  \/ \E l \in 1..Len(links) : \E err \in ConnectErrors : ConnectCallbackErr(l, err)
  \/ \E i \in 1..Len(queries) : QueryThen(i)
  \/ \E i \in 1..Len(queries) : \E err \in QueryErrors : QueryCallbackErr(i, err)
  \/ \E i \in 1..Len(queries) : \E data \in Datas : QueryCallbackOk(i, data)

Spec == Init /\ [][Next]_vars

----------------------------------------------------------------------------
(* fields() and describe(): one call, from the call to its result.  The     *)
(* introspection query `this.query('DESCRIBE ' + name)` is the only place   *)
(* where they reach query(), and through it connect(); intro.issued counts  *)
(* these queries.                                                           *)

\* the application calls fields(name): the introspection query is issued
FieldsCall ==
  /\ intro.pc = "idle"
  /\ intro' = [intro EXCEPT !.pc = "query", !.op = "fields", !.nbargs = 1,
                            !.issued = @ + 1]
  /\ UNCHANGED <<database, client, connected, lastInsertId, links, injected, conns,
                 queries, last, parsed, listing, conv, feat, config>>

\* (mutant) the introspection is skipped only when meta is given too
NeedsIntrospection_lt3(nbargs) == nbargs < 3

\* `if (nbargs === 1)`
NeedsIntrospection(nbargs) == nbargs = 1

\* the application calls describe(name), describe(name, fields) or
\* describe(name, fields, meta)
DescribeCall(nbargs, supplied, meta) ==
  /\ intro.pc = "idle"
  /\ nbargs = 1 => supplied = <<>>
  /\ nbargs < 3 => meta = "undefined"
  /\ IF NeedsIntrospection(nbargs)
     THEN intro' = [intro EXCEPT !.pc = "query", !.op = "describe", !.nbargs = nbargs,
                                 !.supplied = supplied, !.meta = meta, !.issued = @ + 1]
     ELSE intro' = [intro EXCEPT !.pc = "done", !.op = "describe", !.nbargs = nbargs,
                                 !.supplied = supplied, !.meta = meta,
                                 !.schema = NewSchema(supplied, meta)]
  /\ UNCHANGED <<database, client, connected, lastInsertId, links, injected, conns,
                 queries, last, parsed, listing, conv, feat, config>>

\* the introspection query resolves with a cursor over the reported rows
DescribeResponse(cols) ==
  /\ intro.pc = "query"
  /\ intro' = [intro EXCEPT !.pc = "loop", !.columns = cols, !.pos = 1, !.fields = <<>>]
  /\ UNCHANGED <<database, client, connected, lastInsertId, links, injected, conns,
                 queries, last, parsed, listing, conv, feat, config>>

\* the introspection query is rejected: the `yield` throws and the promise
\* of fields(), and of describe(), is rejected
DescribeFailure ==
  /\ intro.pc = "query"
  /\ intro' = [intro EXCEPT !.pc = "failed"]
  /\ UNCHANGED <<database, client, connected, lastInsertId, links, injected, conns,
                 queries, last, parsed, listing, conv, feat, config>>

\* one turn of `for (var column of columns)`
FieldsLoop ==
  /\ intro.pc = "loop"
  /\ intro.pos <= Len(intro.columns)
  /\ intro' = [intro EXCEPT !.fields = Push(@, Tmp(intro.columns[intro.pos])),
                            !.pos = @ + 1]
  /\ UNCHANGED <<database, client, connected, lastInsertId, links, injected, conns,
                 queries, last, parsed, listing, conv, feat, config>>

\* `return fields`, and in describe() the schema built from them
FieldsReturn ==
  /\ intro.pc = "loop"
  /\ intro.pos > Len(intro.columns)
  /\ intro' = [intro EXCEPT !.pc = "done",
                            !.schema = IF intro.op = "describe"
                                       THEN NewSchema(intro.fields, intro.meta)
                                       ELSE @]
  /\ UNCHANGED <<database, client, connected, lastInsertId, links, injected, conns,
                 queries, last, parsed, listing, conv, feat, config>>

\* an adapter as the tests construct it, before any call
FieldsInit ==
  /\ database = TRUE
  /\ injected = 0
  /\ links = <<>>
  /\ client = NoClient
  /\ connected = FALSE
  /\ lastInsertId = <<>>
  /\ conns = <<>>
  /\ queries = <<>>
  /\ last = [op |-> "constructor", value |-> TRUE]
  /\ intro = IntroIdle
  /\ parsed = NotParsed
  /\ listing = ListingIdle(NoCatalogue)
  /\ conv = NotConverted
  /\ feat = NotAsked
  /\ config = DefaultConfig

FieldsNext ==
  \/ FieldsCall
  \/ \E nbargs \in 1..3 : \E supplied \in SuppliedFields : \E meta \in Metas :
       DescribeCall(nbargs, supplied, meta)
  \/ intro.pc = "query" /\ \E cols \in ColumnSeqs : DescribeResponse(cols)
  \/ DescribeFailure
  \/ FieldsLoop
  \/ FieldsReturn

FieldsSpec == FieldsInit /\ [][FieldsNext]_vars

----------------------------------------------------------------------------
(* _field() on its own: vendor type texts base, base(n) and base(n,m) *)

ParseCall(text) ==
  /\ parsed' = [text |-> text, field |-> Field(text)]
  /\ UNCHANGED <<database, client, connected, lastInsertId, links, injected, conns,
                 queries, last, intro, listing, conv, feat, config>>

\* the number lists written in a type text: none, a length, a length and a
\* precision
NumberLists ==
  {<<>>} \cup {<<n>> : n \in 0..MaxLength}
         \cup {<<n, m>> : n \in 0..MaxLength, m \in 0..MaxPrecision}

ParseNext ==
  \E base \in BaseTypes : \E numbers \in NumberLists : ParseCall(TypeText(base, numbers))

ParseSpec == FieldsInit /\ [][ParseNext]_vars

----------------------------------------------------------------------------
(* sources(): one call, from the call to its result *)

\* (mutant) the statement does not restrict the table type
SourcesSelect_anyType ==
  [fields |-> "table_name", from |-> "information_schema.tables",
   table_type |-> "", table_schema |-> DatabaseName]

\* the statement sources() builds: table_name of information_schema.tables
\* where table_type is 'BASE TABLE' and table_schema is config.database
SourcesSelect ==
  [fields |-> "table_name", from |-> "information_schema.tables",
   table_type |-> "BASE TABLE", table_schema |-> DatabaseName]

\* the engine's answer: the names of the entries of the catalogue that meet
\* the conditions of the statement (an empty text is no condition)
Rows(select, catalogue) ==
  {p[2] : p \in {q \in Places :
                   /\ catalogue[q] # "none"
                   /\ select.table_type \in {"", catalogue[q]}
                   /\ select.table_schema \in {"", q[1]}}}

\* _sources(select): each name of the answer, mapped to itself
SourcesOf(rows) == [n \in rows |-> n]

\* the application calls sources(): the statement is built and issued
SourcesCall ==
  /\ listing.pc = "idle"
  /\ listing' = [listing EXCEPT !.pc = "query", !.select = SourcesSelect, !.issued = @ + 1]
  /\ UNCHANGED <<database, client, connected, lastInsertId, links, injected, conns,
                 queries, last, intro, parsed, conv, feat, config>>

\* the query resolves with the engine's answer
SourcesResponse ==
  /\ listing.pc = "query"
  /\ listing' = [listing EXCEPT !.pc = "done",
                                !.result = SourcesOf(Rows(listing.select, listing.catalogue))]
  /\ UNCHANGED <<database, client, connected, lastInsertId, links, injected, conns,
                 queries, last, intro, parsed, conv, feat, config>>

\* the query rejects: so does sources()
SourcesFailure ==
  /\ listing.pc = "query"
  /\ listing' = [listing EXCEPT !.pc = "failed"]
  /\ UNCHANGED <<database, client, connected, lastInsertId, links, injected, conns,
                 queries, last, intro, parsed, conv, feat, config>>

\* an adapter with a database name, in front of an engine with any catalogue
SourcesInit ==
  /\ database = TRUE
  /\ injected = 0
  /\ links = <<>>
  /\ client = NoClient
  /\ connected = FALSE
  /\ lastInsertId = <<>>
  /\ conns = <<>>
  /\ queries = <<>>
  /\ last = [op |-> "constructor", value |-> TRUE]
  /\ intro = IntroIdle
  /\ parsed = NotParsed
  /\ listing \in {ListingIdle(c) : c \in Catalogues}
  /\ conv = NotConverted
  /\ feat = NotAsked
  /\ config = DefaultConfig

SourcesNext ==
  \/ SourcesCall
  \/ SourcesResponse
  \/ SourcesFailure

SourcesSpec == SourcesInit /\ [][SourcesNext]_vars

----------------------------------------------------------------------------
(* convert(), MySql.enabled() and the constructor: calls without any effect *)
(* on the connection                                                        *)

\* convert('datasource', type, v)
ToStorageCall(type, v) ==
  /\ conv' = [pc |-> "stored", type |-> type, value |-> v,
              stored |-> ToStorage(type, v), back |-> VNull]
  /\ UNCHANGED <<database, client, connected, lastInsertId, links, injected, conns,
                 queries, last, intro, parsed, listing, feat, config>>

\* convert('cast', type, s) on what the conversion before it has yielded
FromStorageCall ==
  /\ conv.pc = "stored"
  /\ \E r \in FromStorage(conv.type, conv.stored) :
       conv' = [conv EXCEPT !.pc = "back", !.back = r]
  /\ UNCHANGED <<database, client, connected, lastInsertId, links, injected, conns,
                 queries, last, intro, parsed, listing, feat, config>>

\* MySql.enabled(): `extend({}, features)`, a copy of the table
EnabledAll ==
  /\ feat' = [args |-> <<>>, kind |-> "table", table |-> Features, flag |-> FALSE]
  /\ UNCHANGED <<database, client, connected, lastInsertId, links, injected, conns,
                 queries, last, intro, parsed, listing, conv, config>>

\* MySql.enabled(feature): `features[feature]`, undefined for a name the
\* table does not hold
EnabledOne(feature) ==
  /\ feat' = IF \E p \in Features : p[1] = feature
             THEN [args |-> <<feature>>, kind |-> "flag", table |-> {},
                   flag |-> (CHOOSE p \in Features : p[1] = feature)[2]]
             ELSE [args |-> <<feature>>, kind |-> "undefined", table |-> {}, flag |-> FALSE]
  /\ UNCHANGED <<database, client, connected, lastInsertId, links, injected, conns,
                 queries, last, intro, parsed, listing, conv, config>>

\* `config.username ? ... : ...`: the option is given and not the empty text
Truthy(option) == option # <<>> /\ option[1] # ""

\* this._config.username after super(config): the option as it was given
ConfigUsername(username) == username

\* `this._config.user = config.username ? config.username : this._config.username`
ConfigUser(username, user) ==
  IF Truthy(username) THEN username ELSE ConfigUsername(username)

\* new MySql({username: ..., user: ...})
Construct(username, user) ==
  /\ config' = [username |-> username, user |-> user,
                configUser |-> ConfigUser(username, user), built |-> TRUE]
  /\ UNCHANGED <<database, client, connected, lastInsertId, links, injected, conns,
                 queries, last, intro, parsed, listing, conv, feat>>

UtilNext ==
  \/ \E type \in LogicalTypes : \E v \in TypedValues(type) : ToStorageCall(type, v)
  \/ FromStorageCall
  \/ EnabledAll
  \/ \E feature \in FeatureNames : EnabledOne(feature)
  \/ \E username \in Options : \E user \in Options : Construct(username, user)

UtilSpec == FieldsInit /\ [][UtilNext]_vars

----------------------------------------------------------------------------
(* Properties *)

\* this step is a call of connect(), by the application or by query()
ConnectCalled == Len(conns') = Len(conns) + 1

\* the promise the call of connect() in this step returns
Returned == conns'[Len(conns')]

\* link l has been closed by disconnect()
Closed(l) == links[l].ends > 0

\* a promise of connect() that waited for a link resolves with that link
ResolvesWithOwnLink ==
  \A i \in 1..Len(conns) :
    (conns[i].st = "resolved" /\ conns[i].link # NoClient) => conns[i].val = conns[i].link

(* C1: connect() called while a handle is cached resolves with that cached  *)
(* handle, opens no transport link and leaves the handle cached, so any     *)
(* number of repetitions yields the identical handle.                       *)
C1_CachedConnect ==
  [][(ConnectCalled /\ client # NoClient) =>
       /\ Returned.st = "resolved"
       /\ Returned.val = client
       /\ client' = client
       /\ links' = links]_vars

C1_Witness ==
  \E i, j \in 1..Len(conns) :
    /\ i < j
    /\ conns[i].st = "resolved" /\ conns[j].st = "resolved"
    /\ conns[j].link = NoClient
    /\ conns[j].val = conns[i].val
    /\ client = conns[j].val
    /\ connected

(* C2: a connect() called while the promise of an earlier connect() is      *)
(* still pending, with no disconnect() of its link in between, opens no     *)
(* second transport link and yields the handle the first call waits for;    *)
(* the first call, when it resolves, resolves with that same handle.        *)
C2_ConcurrentConnect ==
  /\ []ResolvesWithOwnLink
  /\ [][ConnectCalled =>
          \A i \in 1..Len(conns) :
            (conns[i].st = "pending" /\ ~Closed(conns[i].link)) =>
               /\ Returned.st = "resolved"
               /\ Returned.val = conns[i].link
               /\ links' = links]_vars

C2_Witness ==
  /\ Len(conns) = 2
  /\ conns[1].st = "pending"
  /\ conns[2].st = "resolved"
  /\ conns[2].val = conns[1].link
  /\ Len(links) = 1

\* a connect() has succeeded and every handle so far has been closed by
\* disconnect(): the adapter has been disconnected after a success
DisconnectedAfterSuccess ==
  /\ \E i \in 1..Len(conns) : conns[i].st = "resolved"
  /\ \A l \in 1..Len(links) : Closed(l)

\* the call of connect() in this step opens a new transport link, caches it
\* and returns a promise that waits for it
OpensNewLink ==
  /\ Len(links') = Len(links) + 1
  /\ links'[Len(links')] = [st |-> "connecting", ends |-> 0, stmts |-> <<>>]
  /\ client' = Len(links')
  /\ Returned.st = "pending"
  /\ Returned.link = Len(links')

\* a promise that waited for a link of its own resolves with a handle
\* different from every handle an earlier connect() resolved with
FreshHandle ==
  \A i, j \in 1..Len(conns) :
    (i < j /\ conns[i].st = "resolved" /\ conns[j].st = "resolved" /\ conns[j].link # NoClient)
      => conns[j].val # conns[i].val

(* C3, as stated: after a successful connect() and a disconnect(), the next *)
(* connect() opens a new transport link.                                    *)
C3_Original ==
  [][(ConnectCalled /\ DisconnectedAfterSuccess) => OpensNewLink]_vars

(* C3, amended: when a database name is configured, after a successful      *)
(* connect() and a disconnect(), the next connect() opens a new transport   *)
(* link, and when that link connects the promise resolves with the new      *)
(* handle, which differs from every handle resolved before.                 *)
C3_Reconnect ==
  /\ []ResolvesWithOwnLink
  /\ []FreshHandle
  /\ [][(ConnectCalled /\ DisconnectedAfterSuccess /\ database) => OpensNewLink]_vars

C3_Witness ==
  \E i, j \in 1..Len(conns) :
    /\ i < j
    /\ conns[i].st = "resolved" /\ Closed(conns[i].val)
    /\ conns[j].st = "resolved" /\ conns[j].link # NoClient
    /\ conns[j].val # conns[i].val
    /\ client = conns[j].val

(* C4: connect() with no cached handle and no database name rejects with    *)
(* 'Error, no database name has been configured.', creates no transport     *)
(* link and leaves the adapter without a handle and with connected() false. *)
C4_NoDatabase ==
  [][(ConnectCalled /\ client = NoClient /\ ~database) =>
       /\ Returned.st = "rejected"
       /\ Returned.err = NoDatabaseError
       /\ links' = links
       /\ client' = NoClient
       /\ ~Connected']_vars

C4_Witness ==
  /\ ~database
  /\ client = NoClient
  /\ \E i \in 1..Len(conns) : conns[i].st = "rejected" /\ conns[i].err = NoDatabaseError
  /\ \A l \in 1..Len(links) : l <= injected

\* the message of a rejection starts with 'Unable to connect to host' and
\* embeds the code and the stack of a native error
IsConnectionError(e) ==
  \E n \in ConnectErrors :
    /\ Len(e.message) = 4
    /\ e.message[1] = "Unable to connect to host , error "
    /\ e.message[2] = n.code
    /\ e.message[4] = n.stack

(* C5: when the transport reports a connection error, the promise of that   *)
(* connect() is rejected with an 'Unable to connect to host' error that     *)
(* embeds the native code and detail, and connected() is false afterwards.  *)
C5_ConnectFailure ==
  (last.op = "connectCallback" /\ ~last.value) =>
     /\ \A i \in 1..Len(conns) :
          (conns[i].link # NoClient /\ links[conns[i].link].st = "failed") =>
             (conns[i].st = "rejected" /\ IsConnectionError(conns[i].err))
     /\ ~Connected

(* C6: after a connect() attempt has failed at the transport the adapter    *)
(* does not hold the handle of the failed attempt.                          *)
C6_FailedHandleDropped ==
  \A l \in 1..Len(links) : links[l].st = "failed" => client # l

(* C7: disconnect() returns true from every state; with a handle it closes  *)
(* that transport link, without one it makes no transport call; afterwards  *)
(* the adapter holds no handle and connected() returns false.  (Every       *)
(* action names itself in `last`, so a step that changes the state and ends *)
(* with last.op = "disconnect" is a call of disconnect().)                  *)
C7_Disconnect ==
  [][last'.op = "disconnect" =>
       /\ last'.value = TRUE
       /\ IF client # NoClient
          THEN links' = [links EXCEPT ![client].ends = @ + 1]
          ELSE links' = links
       /\ client' = NoClient
       /\ ~Connected']_vars

(* C8: when the connect() made by query() fails, the promise of query() is  *)
(* rejected with that error.                                                *)
C8_ConnectErrorSurfaced ==
  \A i \in 1..Len(queries) :
    (conns[queries[i].conn].st = "rejected" /\ queries[i].then # "pending") =>
       (queries[i].st = "rejected" /\ queries[i].err = conns[queries[i].conn].err)

(* C9: when the transport reports an error for the statement, the promise   *)
(* of query() is rejected with that very error and holds no value.          *)
C9_QueryError ==
  \A i \in 1..Len(queries) :
    queries[i].got.err # NoError =>
       /\ queries[i].st = "rejected"
       /\ queries[i].err = queries[i].got.err
       /\ queries[i].val = NoValue

C9_Witness ==
  \E i \in 1..Len(queries) :
    /\ queries[i].got.err \in QueryErrors
    /\ queries[i].st = "rejected"
    /\ ~queries[i].late

(* C10: a successful response with an insert identifier records it as       *)
(* lastInsertId and resolves true; otherwise a response with data resolves  *)
(* a cursor over exactly that data; otherwise the promise resolves true;    *)
(* in the last two cases no identifier is recorded.                         *)
C10_Classification ==
  [][\A i \in 1..Len(queries) :
       (i <= Len(queries') /\ queries[i].st = "pending" /\ queries'[i].st = "resolved") =>
          LET data == queries'[i].got.data IN
            IF data.present /\ data.insertId # <<>>
            THEN queries'[i].val = True /\ lastInsertId' = data.insertId
            ELSE IF data.present
            THEN queries'[i].val = Cursor(data) /\ lastInsertId' = lastInsertId
            ELSE queries'[i].val = True /\ lastInsertId' = lastInsertId]_vars

C10_Witness ==
  \E i, j \in 1..Len(queries) :
    /\ queries[i].st = "resolved" /\ queries[i].val = Cursor(queries[i].got.data)
    /\ queries[i].got.data.rows = <<"row">>
    /\ queries[j].st = "resolved" /\ queries[j].val = True
    /\ queries[j].got.data.insertId = <<0>>
    /\ lastInsertId = <<0>>

\* the response that completes query i in this step carries an insert
\* identifier
CompletesWithId(i) ==
  /\ queries[i].st = "pending"
  /\ queries'[i].st = "resolved"
  /\ queries'[i].got.data.present
  /\ queries'[i].got.data.insertId # <<>>

(* C11: lastInsertId() is the identifier of the most recently completed     *)
(* successful response that carried one: every such response overwrites it, *)
(* nothing else changes it, and it is undefined until the first one.        *)
C11_LastInsertId ==
  /\ []((\A i \in 1..Len(queries) :
            ~(queries[i].st = "resolved" /\ queries[i].got.data.insertId # <<>>))
          => lastInsertId = <<>>)
  /\ [][IF \E i \in 1..Len(queries) : CompletesWithId(i)
        THEN \E i \in 1..Len(queries) :
               CompletesWithId(i) /\ lastInsertId' = queries'[i].got.data.insertId
        ELSE lastInsertId' = lastInsertId]_vars

C11_Witness ==
  \E i, j \in 1..Len(queries) :
    /\ queries[i].st = "resolved" /\ queries[i].got.data.insertId = <<1>>
    /\ queries[j].st = "resolved" /\ queries[j].got.data.insertId = <<0>>
    /\ lastInsertId = <<0>>

\* the number of positions of sequence s that hold x
Count(s, x) == Cardinality({k \in 1..Len(s) : s[k] = x})

\* the adapter started without a handle, has a database name, and no link
\* has failed to connect or has been closed by disconnect()
UndisturbedRun ==
  /\ injected = 0
  /\ database
  /\ \A l \in 1..Len(links) : links[l].st # "failed" /\ links[l].ends = 0

(* C12: concurrent query() calls on an initially disconnected adapter with  *)
(* a database name, a succeeding transport and no disconnect(): exactly one *)
(* transport link is opened, and each call whose connection is established  *)
(* has its statement text submitted exactly once, unmodified, on that link. *)
C12_SharedLink ==
  (UndisturbedRun /\ Len(queries) > 0) =>
     /\ Len(links) = 1
     /\ \A i \in 1..Len(queries) :
          /\ queries[i].then # "rejected"
          /\ queries[i].then = "fulfilled" => queries[i].link = 1
     /\ \A sql \in Statements :
          Count(links[1].stmts, sql) =
            Cardinality({i \in 1..Len(queries) :
                           queries[i].then = "fulfilled" /\ queries[i].sql = sql})
     /\ Len(links[1].stmts) =
          Cardinality({i \in 1..Len(queries) : queries[i].then = "fulfilled"})

C12_Witness ==
  /\ UndisturbedRun
  /\ Len(queries) = 2
  /\ conns[queries[2].conn].link = NoClient
  /\ queries[1].then = "fulfilled" /\ queries[2].then = "fulfilled"
  /\ queries[1].sql # queries[2].sql
  /\ Len(links) = 1
  /\ Len(links[1].stmts) = 2

\* the links this adapter created that have not been ended
OpenLinks == {l \in (injected + 1)..Len(links) : links[l].ends = 0}

(* C13: in every reachable state at most one transport link created by the  *)
(* adapter is open, that is created and not yet ended.                      *)
C13_OneOpenLink == Cardinality(OpenLinks) <= 1

C13_Witness ==
  /\ Len(links) - injected = 2
  /\ Cardinality(OpenLinks) = 1
  /\ \E l \in 1..Len(links) : links[l].ends > 0 /\ l > injected

(* C14: right after construction, before any call, connected() returns true *)
(* exactly when a handle was injected through the client option.            *)
C14_InjectedStartsConnected ==
  last.op = "constructor" => (Connected <=> injected = 1)

\* the introspection query of the call in progress has reported its rows
Introspected == intro.issued = 1 /\ intro.pc \in {"loop", "done"}

(* C15: fields(name) builds one descriptor per reported column, keyed by    *)
(* the column's name, in the order in which the columns were reported: the  *)
(* k-th entry is for the k-th column, and the result has as many entries as *)
(* there are columns.                                                       *)
C15_OneDescriptorPerColumn ==
  Introspected =>
     /\ Len(intro.fields) = intro.pos - 1
     /\ \A k \in 1..Len(intro.fields) : intro.fields[k].name = intro.columns[k].Field
     /\ intro.pc = "done" => Len(intro.fields) = Len(intro.columns)

C15_Witness ==
  /\ intro.op = "fields" /\ intro.pc = "done"
  /\ Len(intro.columns) = 2
  /\ intro.fields[1].name = "id" /\ intro.fields[2].name = "active"

(* C16: the null flag of every descriptor is true exactly when the column's *)
(* reported nullability flag is 'YES', whatever its default and type.       *)
C16_NullFromFlag ==
  Introspected =>
     \A k \in 1..Len(intro.fields) :
       k <= Len(intro.columns) =>
          (intro.fields[k].def.null <=> intro.columns[k].Null = "YES")

C16_Witness ==
  /\ intro.pc = "done" /\ Len(intro.fields) = 2
  /\ intro.columns[1].Null = "NO" /\ intro.columns[1].Default = DNull
  /\ ~intro.fields[1].def.null
  /\ intro.columns[2].Null = "YES" /\ intro.columns[2].Default = DString("1")
  /\ intro.fields[2].def.type = "boolean"
  /\ intro.fields[2].def.null

(* C17: for a column of logical type boolean the default is true for the    *)
(* raw default '1', false for '0', and the raw default itself otherwise.    *)
C17_BooleanDefault ==
  Introspected =>
     \A k \in 1..Len(intro.fields) :
       (k <= Len(intro.columns) /\ intro.fields[k].def.type = "boolean") =>
          intro.fields[k].def.default =
            (IF intro.columns[k].Default = DString("1") THEN DBool(TRUE)
             ELSE IF intro.columns[k].Default = DString("0") THEN DBool(FALSE)
             ELSE intro.columns[k].Default)

(* C18: for a column of logical type datetime the default is null when the  *)
(* raw default is 'CURRENT_TIMESTAMP' and the raw default otherwise; for a  *)
(* column whose logical type is neither boolean nor datetime it is the raw  *)
(* default.                                                                 *)
C18_DatetimeDefault ==
  Introspected =>
     \A k \in 1..Len(intro.fields) :
       k <= Len(intro.columns) =>
          /\ intro.fields[k].def.type = "datetime" =>
               intro.fields[k].def.default =
                 (IF intro.columns[k].Default = DString("CURRENT_TIMESTAMP") THEN DNull
                  ELSE intro.columns[k].Default)
          /\ intro.fields[k].def.type \notin {"boolean", "datetime"} =>
               intro.fields[k].def.default = intro.columns[k].Default

C18_Witness ==
  /\ intro.pc = "done" /\ Len(intro.fields) = 2
  /\ intro.fields[1].def.type = "datetime"
  /\ intro.columns[1].Default = DString("CURRENT_TIMESTAMP")
  /\ intro.fields[1].def.default = DNull
  /\ intro.fields[2].def.type = "decimal"
  /\ intro.columns[2].Default = DString("1")
  /\ intro.fields[2].def.default = DString("1")

(* C19: the vendor type text base, base(n) or base(n,m) parses to use =     *)
(* base, length = n (absent without numbers) and precision = m (absent      *)
(* without a second number, present when m is 0); the logical type is what  *)
(* the dialect's mapped() returns for that parsed descriptor.               *)
C19_ParsedType ==
  \A base \in BaseTypes : \A numbers \in NumberLists :
    parsed.text = TypeText(base, numbers) =>
       /\ parsed.field.use = base
       /\ parsed.field.length = (IF numbers = <<>> THEN <<>> ELSE <<numbers[1]>>)
       /\ parsed.field.precision = (IF Len(numbers) = 2 THEN <<numbers[2]>> ELSE <<>>)
       /\ parsed.field.type =
            Mapped([use |-> base,
                    length |-> IF numbers = <<>> THEN <<>> ELSE <<numbers[1]>>,
                    precision |-> IF Len(numbers) = 2 THEN <<numbers[2]>> ELSE <<>>])

C19_Witness ==
  /\ parsed.text = <<"d", "e", "c", "i", "m", "a", "l", "(", "1", "0", ",", "2", ")">>
  /\ parsed.field = [type |-> "decimal", use |-> T_decimal, length |-> <<10>>, precision |-> <<2>>]

(* C20: describe() called with fields (two or three arguments) issues no    *)
(* introspection query and builds the schema from exactly the supplied      *)
(* definitions; describe(name) issues the introspection query of            *)
(* fields(name) and builds the schema from its descriptors.                 *)
C20_Describe ==
  intro.op = "describe" =>
     IF intro.nbargs >= 2
     THEN /\ intro.issued = 0
          /\ intro.pc = "done"
          /\ intro.schema = NewSchema(intro.supplied, intro.meta)
     ELSE /\ intro.issued = 1
          /\ intro.pc = "done" =>
               /\ intro.schema.fields = intro.fields
               /\ Len(intro.fields) = Len(intro.columns)

C20_Witness ==
  /\ intro.op = "describe" /\ intro.nbargs = 2 /\ intro.pc = "done"
  /\ intro.supplied # <<>>
  /\ intro.schema.fields = intro.supplied
  /\ intro.issued = 0

----------------------------------------------------------------------------
(* Behaviour of the connection under interleavings *)

(* C25: in every reachable state, connected() returning true implies that   *)
(* the adapter holds a handle.                                              *)
C25_ConnectedHoldsHandle == Connected => client # NoClient

\* the promise i of connect() becomes resolved in this step
ResolvesNow(i) ==
  /\ conns'[i].st = "resolved"
  /\ i > Len(conns) \/ conns[i].st # "resolved"

(* C26: whenever a promise of connect() resolves, the transport connection  *)
(* of the handle it resolves with has been established and connected() is   *)
(* true at that moment.                                                     *)
C26_ResolvedMeansConnected ==
  [][\A i \in 1..Len(conns') :
       ResolvesNow(i) => /\ links'[conns'[i].val].st = "open"
                         /\ connected']_vars

\* what the event loop and the transport guarantee: a due reaction runs, and
\* the transport answers every handshake and every submitted statement
Reactions == \E i \in 1..Len(queries) : QueryThen(i)

ConnectCallbacks ==
  \E l \in 1..Len(links) :
     \/ ConnectCallbackOk(l)
     \/ \E err \in ConnectErrors : ConnectCallbackErr(l, err)

QueryCallbacks ==
  \E i \in 1..Len(queries) :
     \/ \E err \in QueryErrors : QueryCallbackErr(i, err)
     \/ \E data \in Datas : QueryCallbackOk(i, data)

LiveSpec ==
  /\ Spec
  /\ WF_vars(Reactions)
  /\ WF_vars(ConnectCallbacks)
  /\ WF_vars(QueryCallbacks)

\* disconnect() has just been called while the connection attempt of the
\* pending query i is in flight
DisconnectedInFlight(i) ==
  /\ i <= Len(queries)
  /\ last.op = "disconnect"
  /\ queries[i].st = "pending"
  /\ conns[queries[i].conn].st = "pending"

\* the promise of query i has been resolved or rejected
Settled(i) == i <= Len(queries) /\ queries[i].st # "pending"

(* C27: if disconnect() is called while the connection attempt of a pending *)
(* query() is in flight, the promise of that query() is eventually settled. *)
C27_QuerySettles ==
  \A i \in 1..MaxQueries :
    DisconnectedInFlight(i) ~> Settled(i)

\* query i is settled by this step with a transport error, or with a
\* response that carries no insert identifier
SettlesWithoutId(i) ==
  /\ queries[i].st = "pending"
  /\ \/ queries'[i].st = "rejected"
     \/ queries'[i].st = "resolved" /\ queries'[i].got.data.insertId = <<>>

\* query i has failed with a transport error or has returned without an
\* insert identifier
SettledWithoutId(q) ==
  \/ q.st = "rejected"
  \/ q.st = "resolved" /\ q.got.data.insertId = <<>>

(* C28 as stated: query() calls that fail with a transport error or return  *)
(* data without an insert identifier leave lastInsertId(), the handle and   *)
(* connected() as before the call; so when such calls are all that has      *)
(* happened, these are as they were after construction.                     *)
C28_Original ==
  (/\ queries # <<>>
   /\ \A c \in 1..Len(conns) : conns[c].by # 0
   /\ \A l \in 1..Len(links) : links[l].ends = 0
   /\ \A i \in 1..Len(queries) : SettledWithoutId(queries[i]))
  => /\ lastInsertId = <<>>
     /\ ~Connected
     /\ client = (IF injected = 1 THEN 1 ELSE NoClient)

(* C28 (amended): the handling of a response that is a transport error or   *)
(* carries no insert identifier leaves lastInsertId(), the handle and       *)
(* connected() unchanged; the call of query() and its reaction leave        *)
(* lastInsertId() and connected() unchanged and change the handle only by   *)
(* the connect() of the call caching a new handle when none is cached.      *)
C28_ResponseFrame ==
  [][/\ (\E i \in 1..Len(queries) : SettlesWithoutId(i))
          => UNCHANGED <<lastInsertId, client, connected>>
     /\ last'.op \in {"query", "queryThen"}
          => /\ UNCHANGED <<lastInsertId, connected>>
             /\ client' # client => (last'.op = "query" /\ client = NoClient)]_vars

C28_Witness ==
  /\ lastInsertId = <<1>>
  /\ Connected
  /\ \E i, j \in 1..Len(queries) :
       /\ queries[i].st = "resolved" /\ queries[i].got.data.insertId = <<1>>
       /\ queries[j].st = "resolved" /\ queries[j].got.data.present
       /\ queries[j].got.data.insertId = <<>>

(* C29: every transport link is ended at most once, and no statement is     *)
(* submitted on a link after disconnect() has ended it.                     *)
C29_EndedOnceNoLateStatement ==
  /\ \A l \in 1..Len(links) : links[l].ends <= 1
  /\ \A i \in 1..Len(queries) : ~queries[i].late

C29_Witness ==
  \E i, j \in 1..Len(queries) :
    /\ queries[i].link # NoClient
    /\ links[queries[i].link].ends = 1
    /\ links[queries[i].link].stmts # <<>>
    /\ conns[queries[j].conn].st = "resolved"
    /\ queries[j].then = "rejected"

----------------------------------------------------------------------------
(* sources(), convert(), enabled() and the constructor's options *)

(* C21: sources() returns a mapping from name to the same name that holds   *)
(* exactly the relations whose table type is 'BASE TABLE' and whose schema  *)
(* is the configured database; views and other schemas are left out.        *)
C21_Sources ==
  listing.pc = "done" =>
     /\ DOMAIN listing.result =
          {TableNames[k] : k \in {j \in 1..MaxTables :
                                    listing.catalogue[<<DatabaseName, TableNames[j]>>] = "BASE TABLE"}}
     /\ \A n \in DOMAIN listing.result : listing.result[n] = n

C21_Witness ==
  /\ listing.pc = "done"
  /\ listing.catalogue[<<DatabaseName, "gallery">>] = "BASE TABLE"
  /\ listing.catalogue[<<DatabaseName, "image">>] = "VIEW"
  /\ listing.catalogue[<<"mysql", "image">>] = "BASE TABLE"
  /\ DOMAIN listing.result = {"gallery"}
  /\ listing.result["gallery"] = "gallery"

(* C22: converting a null value to the storage yields the literal NULL for  *)
(* every logical type, a type the conversion table does not hold included.  *)
C22_NullToStorage ==
  (conv.pc # "none" /\ conv.value = VNull) => conv.stored = VText(<<"N", "U", "L", "L">>)

C22_Witness ==
  /\ conv.pc = "stored" /\ conv.value = VNull /\ conv.type = "_undefined_"
  /\ conv.stored.text = <<"N", "U", "L", "L">>

\* the value converted is a value of the logical type of the conversion
OfType(type, v) ==
  \/ type = "integer" /\ v.kind = "number"
  \/ type = "string" /\ v.kind = "string"
  \/ type = "boolean" /\ v.kind = "boolean"

(* C23 as stated: for integer, string and boolean, a value converted to the *)
(* storage and back is the original value.                                  *)
C23_Original ==
  (conv.pc = "back" /\ OfType(conv.type, conv.value)) => conv.back = conv.value

(* C23 (amended): for integer, a value converted to the storage and back is *)
(* the original value; for string, the conversion back yields the quoted    *)
(* storage literal.                                                         *)
C23_RoundTrip ==
  conv.pc = "back" =>
     /\ (conv.type = "integer" /\ conv.value.kind = "number") => conv.back = conv.value
     /\ (conv.type = "string" /\ conv.value.kind = "string") =>
           /\ conv.back = conv.stored
           /\ conv.back.text = <<"'">> \o Escape(conv.value.text) \o <<"'">>

C23_Witness ==
  /\ conv.pc = "back" /\ conv.type = "integer"
  /\ conv.value = VNum(0 - 2)
  /\ conv.stored = VText(<<"-", "2">>)
  /\ conv.back = VNum(0 - 2)

\* the feature table of the adapter's test
ExpectedFeatures ==
  {<<"arrays", FALSE>>, <<"transactions", TRUE>>, <<"savepoints", TRUE>>,
   <<"booleans", TRUE>>, <<"default", FALSE>>}

(* C24: MySql.enabled() returns the table {arrays: false, transactions:     *)
(* true, savepoints: true, booleans: true, default: false}, and             *)
(* enabled(feature) returns the flag of that table for the feature.         *)
C24_Enabled ==
  /\ feat.kind = "table" => feat.table = ExpectedFeatures
  /\ \A p \in ExpectedFeatures :
       feat.args = <<p[1]>> => (feat.kind = "flag" /\ feat.flag = p[2])

(* C30: after construction the transport's user is the username option when *)
(* it is given, and the user option when only that one is given.            *)
C30_UserAlias ==
  config.built =>
     /\ config.username # <<>> => config.configUser = config.username
     /\ (config.username = <<>> /\ config.user # <<>>) => config.configUser = config.user

====
